---- MODULE Spec2Model ----
(***************************************************************************)
(* Model of libbmc's identifier core:                                      *)
(*   - libbmc/doi.py: the DOI grammar REGEX, is_valid, extract_from_text,  *)
(*     get_bibtex;                                                         *)
(*   - libbmc/papers/identifiers.py: find_identifiers (the document scan   *)
(*     that drives pdftotext / djvutxt) and the get_bibtex dispatcher.     *)
(*                                                                         *)
(* Text is a sequence of one-character strings.  A converter output line   *)
(* is such a sequence (its trailing newline left out).                     *)
(***************************************************************************)
EXTENDS Integers, Sequences, FiniteSets, TLC

----------------------------------------------------------------------------
(* Bounds of the model *)

\* longest DOI suffix (the part after "/") of an is_valid candidate
MaxSuffix == 2
\* most lines a converter writes to its standard output
MaxLines == 2
\* number of writes the standard-error pipe holds before a writer blocks
ErrPipeCap == 1

----------------------------------------------------------------------------
(* Characters *)

Digits == {"0", "1", "2", "3", "4", "5", "6", "7", "8", "9"}
Letters == {"a", "b", "d", "f", "j", "p", "t", "u", "v", "x", "D", "F", "P"}
\* \w of Python's re: letters, digits and the underscore
IsWord(c) == c \in Digits \cup Letters \cup {"_"}
\* \s of Python's re (the only whitespace a line of the model holds)
IsSpace(c) == c = " "
\* the characters the negative lookahead (?!["&']) of REGEX refuses
Excluded == {"\"", "&", "'"}
\* a byte sequence that is not valid UTF-8 (one element stands for it)
InvalidByte == "#"

----------------------------------------------------------------------------
(* doi.py: REGEX *)

\* \b at position p of s: between s[p-1] and s[p], the ends counting as
\* non-word
IsBoundary(s, p) ==
    LET left == p > 1 /\ p - 1 <= Len(s) /\ IsWord(s[p - 1])
        right == p >= 1 /\ p <= Len(s) /\ IsWord(s[p])
    IN left # right

\* (?:(?!["&'])\S): one character of a DOI suffix
IsSuffixChar(c) == ~IsSpace(c) /\ c \notin Excluded

RECURSIVE DigitsEnd(_, _)
\* [0-9]* taken greedily from position i: the position after the run
DigitsEnd(s, i) ==
    IF i <= Len(s) /\ s[i] \in Digits THEN DigitsEnd(s, i + 1) ELSE i

RECURSIVE GroupsEnd(_, _)
\* (?:[.][0-9]+)* taken greedily from position i: the position after it
GroupsEnd(s, i) ==
    IF i <= Len(s) /\ s[i] = "." /\ DigitsEnd(s, i + 1) > i + 1
    THEN GroupsEnd(s, DigitsEnd(s, i + 1))
    ELSE i

RECURSIVE SuffixEnd(_, _)
\* (?:(?!["&'])\S)* taken greedily from position i: the position after it
SuffixEnd(s, i) ==
    IF i <= Len(s) /\ IsSuffixChar(s[i]) THEN SuffixEnd(s, i + 1) ELSE i

\* The position after the match of REGEX that starts at position i of s, or
\* 0 when REGEX does not match there.  The digit runs and the groups are
\* followed by a character they cannot hold, so giving one back never
\* helps; only the suffix is backtracked, from its longest run down to the
\* longest one that ends at a \b.
MatchEnd(s, i) ==
    LET d == DigitsEnd(s, i + 3)
        g == GroupsEnd(s, d)
        e == SuffixEnd(s, g + 1)
        ends == {p \in (g + 2)..e : IsBoundary(s, p)}
    IN IF /\ i + 2 <= Len(s)
          /\ IsBoundary(s, i)
          /\ s[i] = "1" /\ s[i + 1] = "0" /\ s[i + 2] = "."
          /\ d - (i + 3) >= 4
          /\ g <= Len(s) /\ s[g] = "/"
          /\ ends # {}
       THEN CHOOSE p \in ends : \A q \in ends : q <= p
       ELSE 0

RECURSIVE FindAll(_, _)
\* REGEX.findall(text) from position i on: the non-overlapping matches,
\* leftmost first
FindAll(s, i) ==
    IF i > Len(s) THEN <<>>
    ELSE IF MatchEnd(s, i) # 0
         THEN <<SubSeq(s, i, MatchEnd(s, i) - 1)>> \o FindAll(s, MatchEnd(s, i))
         ELSE FindAll(s, i + 1)

RECURSIVE remove_duplicates(_)
\* tools.remove_duplicates: first occurrences, in order
remove_duplicates(l) ==
    IF l = <<>> THEN <<>>
    ELSE LET r == remove_duplicates(SubSeq(l, 1, Len(l) - 1))
             x == l[Len(l)]
         IN IF \E k \in 1..Len(r) : r[k] = x THEN r ELSE Append(r, x)

\* doi.is_valid without the comparison of the match with the whole string
is_valid_unanchored(doi) == MatchEnd(doi, 1) # 0

\* doi.is_valid
is_valid(doi) ==
    /\ MatchEnd(doi, 1) # 0
    /\ SubSeq(doi, 1, MatchEnd(doi, 1) - 1) = doi

\* doi.extract_from_text
doi_extract_from_text(text) == remove_duplicates(FindAll(text, 1))


\* a stand-in for the extract_from_text of a second registered scheme
\* (libbmc.isbn): the runs of four or more digits that stand between two \b
RECURSIVE IsbnFindAll(_, _)
IsbnFindAll(s, i) ==
    IF i > Len(s) THEN <<>>
    ELSE IF /\ s[i] \in Digits
            /\ IsBoundary(s, i)
            /\ DigitsEnd(s, i) - i >= 4
            /\ IsBoundary(s, DigitsEnd(s, i))
         THEN <<SubSeq(s, i, DigitsEnd(s, i) - 1)>> \o IsbnFindAll(s, DigitsEnd(s, i))
         ELSE IsbnFindAll(s, i + 1)

isbn_extract_from_text(text) == remove_duplicates(IsbnFindAll(text, 1))

\* getattr(module, "extract_from_text")(text) of the module libbmc.<scheme>
extract_from_text(scheme, text) ==
    IF scheme = "doi" THEN doi_extract_from_text(text)
    ELSE isbn_extract_from_text(text)

----------------------------------------------------------------------------
(* papers/identifiers.py: the pure parts of find_identifiers *)

\* src.endswith(suffix), compared without regard to case
Lower(c) ==
    IF c = "P" THEN "p" ELSE IF c = "D" THEN "d" ELSE IF c = "F" THEN "f" ELSE c
EndsWithNoCase(s, suffix) ==
    /\ Len(s) >= Len(suffix)
    /\ \A k \in 1..Len(suffix) :
          Lower(s[Len(s) - Len(suffix) + k]) = Lower(suffix[k])

\* src.endswith(suffix)
EndsWith(s, suffix) ==
    /\ Len(s) >= Len(suffix)
    /\ SubSeq(s, Len(s) - Len(suffix) + 1, Len(s)) = suffix

PdfSuffix == <<".", "p", "d", "f">>
DjvuSuffix == <<".", "d", "j", "v", "u">>

\* the executable find_identifiers launches for src, "" when it launches none
Converter(s) ==
    IF EndsWith(s, PdfSuffix) THEN "pdftotext"
    ELSE IF EndsWith(s, DjvuSuffix) THEN "djvutxt"
    ELSE ""

\* the argument vector given to subprocess.Popen
Argv(s) ==
    IF Converter(s) = "pdftotext" THEN <<<<"pdftotext">>, s, <<"-">>>>
    ELSE <<<<"djvutxt">>, s>>

RECURSIVE StripLeft(_)
StripLeft(l) ==
    IF l # <<>> /\ IsSpace(Head(l)) THEN StripLeft(Tail(l)) ELSE l

RECURSIVE StripRight(_)
StripRight(l) ==
    IF l # <<>> /\ IsSpace(l[Len(l)])
    THEN StripRight(SubSeq(l, 1, Len(l) - 1))
    ELSE l

\* str.strip()
Strip(l) == StripRight(StripLeft(l))

\* bytes.decode("utf-8") succeeds on the line
Decodable(l) == \A k \in 1..Len(l) : l[k] # InvalidByte

RECURSIVE JoinStripped(_)
\* ' '.join([i.decode("utf-8").strip() for i in lines])
JoinStripped(lines) ==
    IF lines = <<>> THEN <<>>
    ELSE IF Len(lines) = 1 THEN Strip(lines[1])
    ELSE Strip(lines[1]) \o <<" ">> \o JoinStripped(Tail(lines))

\* the buffer of an iteration, were it to keep the previous iteration's
BufferAccumulated(previous, lines) ==
    IF previous = <<>> THEN JoinStripped(lines)
    ELSE IF lines = <<>> THEN previous
    ELSE previous \o <<" ">> \o JoinStripped(lines)

\* extract_full of an iteration: rebuilt from the lines this iteration read
Buffer(previous, lines) == JoinStripped(lines)

\* the last element of an extraction result
LastFound(found) == found[Len(found)]

\* found_id[0]
FirstFound(found) == found[1]

\* the k-th scheme the for loop over __valid_identifiers__ visits
RegistryAt(reg, k) == reg[k]

\* a terminate() that sends nothing
SignalsUnchanged(n) == n

\* the terminate signals sent once totext.terminate() has run
SignalsAfterTerminate(n) == n + 1

----------------------------------------------------------------------------
(* State *)

VARIABLES
    \* the environment of a scan
    src,          \* the path given to find_identifiers
    installed,    \* the converter executables present on the machine
    registry,     \* __valid_identifiers__, in order
    modules,      \* sys.modules: loaded scheme -> the attributes it has
    \* the converter process
    conv,         \* "none", "running", "blocked" (in a write to stderr), "exited"
    out,          \* the lines it has written to standard output
    outClosed,    \* it has closed its standard output
    errbuf,       \* writes to standard error sitting unread in the pipe
    \* find_identifiers
    pc,           \* "start", "poll", "read", "scan", "terminate", "return", "done"
    argv,         \* the argument vector of the Popen call, <<>> before it
    readPos,      \* how many lines of out readlines() has returned so far
    extract_full, \* the buffer of the current iteration
    idx,          \* position of the for loop in the registry
    found_id,     \* the non-empty extraction result that ended the scan
    result,       \* the pair returned
    outcome,      \* "running", "returned", "raised"
    consulted,    \* schemes whose extract_from_text ran in this iteration
    iter,         \* iterations of the while loop entered: 0, 1, 2 (= more)
    spawned,      \* calls of subprocess.Popen
    termSignals,  \* calls of totext.terminate()
    \* doi.is_valid on a candidate and on its one-character extensions
    cand,         \* the string given to is_valid
    base,         \* the accepted string cand extends, <<>> when none
    ext,          \* "none", "lead", "trail": where the extra character is
    extc,         \* the extra character
    verdict,      \* "unset", or what is_valid(cand) returned: "True", "False"
    \* papers.identifiers.get_bibtex
    bibArg,       \* the pair (type, identifier) given to it
    bibPc,        \* "idle", "call", "fetch", "done"
    bibOutcome,   \* "running", "returned", "raised"
    bibScheme,    \* what the scheme's get_bibtex returned, when it ran
    bibResult     \* what get_bibtex returned

envVars == <<src, installed, registry, modules>>
convVars == <<conv, out, outClosed, errbuf>>
scanVars == <<pc, argv, readPos, extract_full, idx, found_id, result, outcome,
              consulted, iter, spawned, termSignals>>
doiVars == <<cand, base, ext, extc, verdict>>
bibVars == <<bibArg, bibPc, bibOutcome, bibScheme, bibResult>>
vars == <<envVars, convVars, scanVars, doiVars, bibVars>>

\* (None, None), and the None of a BibTeX lookup
NoneResult == <<"None", <<>>>>

\* sequences over A of length at most n
SeqsUpTo(A, n) == UNION {[1..k -> A] : k \in 0..n}

----------------------------------------------------------------------------
(* Inputs *)

Paths ==
    { <<"a", ".", "p", "d", "f">>,
      <<"a", ".", "d", "j", "v", "u">>,
      <<"a", ".", "P", "D", "F">>,
      <<"a", ".", "D", "j", "v", "u">>,
      <<"a", ".", "t", "x", "t">>,
      <<"a", ".", "p", "d", "f", "x">>,
      <<"p", "d", "f">>,
      <<".", "p", "d", "f">> }

Executables == {"pdftotext", "djvutxt"}

Registries == { <<"doi">>, <<"isbn", "doi">>, <<"doi", "isbn">> }

Range(f) == {f[k] : k \in DOMAIN f}

FullAttrs == {"extract_from_text", "get_bibtex"}

\* the module tables of a registry: any subset of its schemes loaded, each
\* with one of the attribute sets
ModuleTables(reg, attrSets) ==
    UNION {[loaded -> attrSets] : loaded \in SUBSET Range(reg)}

DoiA == <<"1", "0", ".", "1", "2", "3", "4", "/", "a">>
DoiB == <<"1", "0", ".", "5", "6", "7", "8", "/", "b">>

\* the lines a converter may write
Lines ==
    { <<"a", "b">>,
      DoiA,
      <<" ">> \o DoiB \o <<" ">>,
      <<"9", "7", "8", "1", "2">>,
      <<InvalidByte>> }

----------------------------------------------------------------------------
(* The three parts idle *)

ConvIdle ==
    /\ conv = "none" /\ out = <<>> /\ outClosed = FALSE /\ errbuf = 0

ScanIdle ==
    /\ pc = "start" /\ argv = <<>> /\ readPos = 0 /\ extract_full = <<>>
    /\ idx = 1 /\ found_id = <<>> /\ result = NoneResult
    /\ outcome = "running" /\ consulted = <<>> /\ iter = 0
    /\ spawned = 0 /\ termSignals = 0

DoiIdle ==
    /\ cand = <<>> /\ base = <<>> /\ ext = "none" /\ extc = "" /\ verdict = "unset"

BibIdle ==
    /\ bibArg = NoneResult /\ bibPc = "idle" /\ bibOutcome = "running"
    /\ bibScheme = NoneResult /\ bibResult = NoneResult

----------------------------------------------------------------------------
(* The converter process: pdftotext or djvutxt *)

\* readlines() sees the end of the converter's output
Eof == outClosed \/ conv = "exited"

\* it writes one more line to its standard output
ConvWriteLine ==
    /\ conv = "running" /\ ~outClosed
    /\ Len(out) < MaxLines
    /\ \E l \in Lines : out' = Append(out, l)
    /\ UNCHANGED <<conv, outClosed, errbuf>>
    /\ UNCHANGED <<envVars, scanVars, doiVars, bibVars>>

\* it writes to its standard error, a pipe nobody reads (stderr=PIPE): the
\* write is taken while the pipe has room, and blocks once it is full
ConvWriteErr ==
    /\ conv = "running"
    /\ IF errbuf < ErrPipeCap
       THEN errbuf' = errbuf + 1 /\ conv' = conv
       ELSE errbuf' = errbuf /\ conv' = "blocked"
    /\ UNCHANGED <<out, outClosed>>
    /\ UNCHANGED <<envVars, scanVars, doiVars, bibVars>>

\* it closes its standard output
ConvCloseStdout ==
    /\ conv = "running" /\ ~outClosed
    /\ outClosed' = TRUE
    /\ UNCHANGED <<conv, out, errbuf>>
    /\ UNCHANGED <<envVars, scanVars, doiVars, bibVars>>

\* it exits, done or in error
ConvExit ==
    /\ conv = "running"
    /\ conv' = "exited"
    /\ UNCHANGED <<out, outClosed, errbuf>>
    /\ UNCHANGED <<envVars, scanVars, doiVars, bibVars>>

\* the terminate signal ends it, also out of a blocked write
ConvKilled ==
    /\ conv \in {"running", "blocked"}
    /\ termSignals > 0
    /\ conv' = "exited"
    /\ UNCHANGED <<out, outClosed, errbuf>>
    /\ UNCHANGED <<envVars, scanVars, doiVars, bibVars>>

----------------------------------------------------------------------------
(* papers/identifiers.py: find_identifiers *)

\* totext.stdout.readlines() returns: at the end of the output, not before
ReadReady == Eof

\* totext.poll() is not None
PollExited == conv = "exited"

\* the dispatch on the suffix of src and the Popen call
Start ==
    /\ pc = "start"
    /\ IF Converter(src) = ""
       THEN /\ pc' = "done" /\ outcome' = "returned" /\ result' = NoneResult
            /\ UNCHANGED <<argv, spawned, conv>>
       ELSE /\ argv' = Argv(src)
            /\ spawned' = spawned + 1
            /\ IF Converter(src) \in installed
               THEN /\ conv' = "running" /\ pc' = "poll"
                    /\ UNCHANGED <<outcome, result>>
               ELSE \* Popen raises FileNotFoundError
                    /\ conv' = conv /\ pc' = "done" /\ outcome' = "raised"
                    /\ result' = result
    /\ UNCHANGED <<readPos, extract_full, idx, found_id, consulted, iter,
                   termSignals>>
    /\ UNCHANGED <<out, outClosed, errbuf>>
    /\ UNCHANGED <<envVars, doiVars, bibVars>>

\* the test of the while loop
Poll ==
    /\ pc = "poll"
    /\ IF PollExited
       THEN /\ pc' = "done" /\ outcome' = "returned" /\ result' = NoneResult
            /\ iter' = iter
       ELSE /\ pc' = "read"
            /\ iter' = IF iter < 2 THEN iter + 1 ELSE iter
            /\ UNCHANGED <<outcome, result>>
    /\ UNCHANGED <<argv, readPos, extract_full, idx, found_id, consulted,
                   spawned, termSignals>>
    /\ UNCHANGED <<envVars, convVars, doiVars, bibVars>>

\* readlines(), then the decoding, stripping and joining of the lines
ReadLines ==
    /\ pc = "read"
    /\ ReadReady
    /\ LET lines == SubSeq(out, readPos + 1, Len(out))
       IN /\ readPos' = Len(out)
          /\ IF \A k \in 1..Len(lines) : Decodable(lines[k])
             THEN /\ extract_full' = Buffer(extract_full, lines)
                  /\ idx' = 1 /\ consulted' = <<>>
                  /\ pc' = "scan" /\ outcome' = outcome
             ELSE \* decode raises UnicodeDecodeError
                  /\ pc' = "done" /\ outcome' = "raised"
                  /\ UNCHANGED <<extract_full, idx, consulted>>
    /\ UNCHANGED <<argv, found_id, result, iter, spawned, termSignals>>
    /\ UNCHANGED <<envVars, convVars, doiVars, bibVars>>

\* one turn of the for loop over __valid_identifiers__
ScanScheme ==
    /\ pc = "scan"
    /\ idx <= Len(registry)
    /\ LET identifier == RegistryAt(registry, idx)
       IN IF identifier \notin DOMAIN modules
          THEN \* module is None: continue
               /\ idx' = idx + 1
               /\ UNCHANGED <<pc, outcome, found_id, consulted>>
          ELSE IF "extract_from_text" \notin modules[identifier]
          THEN \* getattr raises AttributeError
               /\ pc' = "done" /\ outcome' = "raised"
               /\ UNCHANGED <<idx, found_id, consulted>>
          ELSE /\ consulted' = Append(consulted, identifier)
               /\ outcome' = outcome
               /\ IF extract_from_text(identifier, extract_full) # <<>>
                  THEN /\ found_id' = extract_from_text(identifier, extract_full)
                       /\ pc' = "terminate" /\ idx' = idx
                  ELSE /\ idx' = idx + 1
                       /\ UNCHANGED <<pc, found_id>>
    /\ UNCHANGED <<argv, readPos, extract_full, result, iter, spawned,
                   termSignals>>
    /\ UNCHANGED <<envVars, convVars, doiVars, bibVars>>

\* the for loop ends without a match: back to the test of the while loop
LoopBack ==
    /\ pc = "scan"
    /\ idx > Len(registry)
    /\ pc' = "poll"
    /\ UNCHANGED <<argv, readPos, extract_full, idx, found_id, result, outcome,
                   consulted, iter, spawned, termSignals>>
    /\ UNCHANGED <<envVars, convVars, doiVars, bibVars>>

\* totext.terminate(): the signal is sent, nothing is waited for
Terminate ==
    /\ pc = "terminate"
    /\ termSignals' = SignalsAfterTerminate(termSignals)
    /\ pc' = "return"
    /\ UNCHANGED <<argv, readPos, extract_full, idx, found_id, result, outcome,
                   consulted, iter, spawned>>
    /\ UNCHANGED <<envVars, convVars, doiVars, bibVars>>

\* return (identifier, found_id[0])
Return ==
    /\ pc = "return"
    /\ result' = <<RegistryAt(registry, idx), FirstFound(found_id)>>
    /\ outcome' = "returned"
    /\ pc' = "done"
    /\ UNCHANGED <<argv, readPos, extract_full, idx, found_id, consulted, iter,
                   spawned, termSignals>>
    /\ UNCHANGED <<envVars, convVars, doiVars, bibVars>>

Init ==
    /\ src \in Paths
    /\ installed \in SUBSET Executables
    /\ registry \in Registries
    /\ modules \in ModuleTables(registry, {FullAttrs, {"get_bibtex"}})
    /\ ConvIdle /\ ScanIdle /\ DoiIdle /\ BibIdle

Next ==
    \/ Start \/ Poll \/ ReadLines \/ ScanScheme \/ LoopBack \/ Terminate
    \/ Return
    \/ ConvWriteLine \/ ConvWriteErr \/ ConvCloseStdout \/ ConvExit
    \/ ConvKilled

Spec == Init /\ [][Next]_vars

----------------------------------------------------------------------------
(* doi.py: is_valid on candidates and on their one-character extensions *)

\* the beginnings of a candidate: a DOI prefix, well formed or not
Prefixes ==
    { <<"1", "0", ".", "1", "2", "3", "4">>,
      <<"1", "0", ".", "1", "2", "3", "4", "5">>,
      <<"1", "0", ".", "1", "2", "3">>,
      <<"1", "0", ".", "1", "2", "3", "4", ".", "5">>,
      <<"1", "0", ".", "1", "2", "3", "4", ".">>,
      <<"1", "0", "1", "2", "3", "4">>,
      <<"a", "1", "0", ".", "1", "2", "3", "4">> }

\* the characters a candidate's suffix is made of
SuffixAlphabet == {"1", "a", ".", "/", "-", "\"", " "}

\* the characters a candidate is extended by
ExtraChars == {"0", "1", "a", "_", ".", "/", "-", "\"", "&", " "}

Candidates ==
    {p \o sep \o s : p \in Prefixes, sep \in {<<>>, <<"/">>},
                     s \in SeqsUpTo(SuffixAlphabet, MaxSuffix)}

\* is_valid(cand)
IsValidCall ==
    /\ verdict = "unset"
    /\ cand # <<>>
    /\ verdict' = IF is_valid(cand) THEN "True" ELSE "False"
    /\ UNCHANGED <<cand, base, ext, extc>>
    /\ UNCHANGED <<envVars, convVars, scanVars, bibVars>>

\* an accepted candidate gets one extra leading character
AddLeading ==
    /\ verdict = "True" /\ ext = "none"
    /\ \E c \in ExtraChars :
          /\ cand' = <<c>> \o cand
          /\ extc' = c
    /\ base' = cand /\ ext' = "lead" /\ verdict' = "unset"
    /\ UNCHANGED <<envVars, convVars, scanVars, bibVars>>

\* an accepted candidate gets one extra trailing character
AddTrailing ==
    /\ verdict = "True" /\ ext = "none"
    /\ \E c \in ExtraChars :
          /\ cand' = Append(cand, c)
          /\ extc' = c
    /\ base' = cand /\ ext' = "trail" /\ verdict' = "unset"
    /\ UNCHANGED <<envVars, convVars, scanVars, bibVars>>

InitDoi ==
    /\ cand \in Candidates
    /\ base = <<>> /\ ext = "none" /\ extc = "" /\ verdict = "unset"
    /\ src = <<>> /\ installed = {} /\ registry = <<"doi">>
    /\ modules = [s \in {"doi"} |-> FullAttrs]
    /\ ConvIdle /\ ScanIdle /\ BibIdle

NextDoi == IsValidCall \/ AddLeading \/ AddTrailing

SpecDoi == InitDoi /\ [][NextDoi]_vars

----------------------------------------------------------------------------
(* papers/identifiers.py: get_bibtex, and the get_bibtex of the schemes *)

SchemeNames == {"doi", "isbn", "hal"}

\* what the remote end does with the request of doi.get_bibtex
Replies == {"ok", "connection_error", "http_error", "wrong_content_type"}

\* request.text of a good reply for the identifier
BibtexOf(id) == <<"bibtex", id>>

\* the lookups in get_bibtex, up to the call of the scheme's get_bibtex
GetBibtexDispatch ==
    /\ bibPc = "call"
    /\ LET identifier_type == bibArg[1]
       IN IF \A k \in 1..Len(registry) : registry[k] # identifier_type
          THEN /\ bibPc' = "done" /\ bibOutcome' = "returned"
               /\ bibResult' = NoneResult
          ELSE IF identifier_type \notin DOMAIN modules
          THEN /\ bibPc' = "done" /\ bibOutcome' = "returned"
               /\ bibResult' = NoneResult
          ELSE IF "get_bibtex" \notin modules[identifier_type]
          THEN \* getattr raises AttributeError
               /\ bibPc' = "done" /\ bibOutcome' = "raised"
               /\ bibResult' = bibResult
          ELSE /\ bibPc' = "fetch"
               /\ UNCHANGED <<bibOutcome, bibResult>>
    /\ UNCHANGED <<bibArg, bibScheme>>
    /\ UNCHANGED <<envVars, convVars, scanVars, doiVars>>

\* doi.get_bibtex, whose return value get_bibtex returns
DoiGetBibtex ==
    /\ bibPc = "fetch"
    /\ bibArg[1] = "doi"
    /\ \E reply \in Replies :
          bibScheme' = IF reply = "ok" THEN BibtexOf(bibArg[2]) ELSE NoneResult
    /\ bibResult' = bibScheme'
    /\ bibPc' = "done" /\ bibOutcome' = "returned"
    /\ UNCHANGED bibArg
    /\ UNCHANGED <<envVars, convVars, scanVars, doiVars>>

\* the get_bibtex of another scheme: a BibTeX string or None
OtherGetBibtex ==
    /\ bibPc = "fetch"
    /\ bibArg[1] # "doi"
    /\ \E ok \in BOOLEAN :
          bibScheme' = IF ok THEN BibtexOf(bibArg[2]) ELSE NoneResult
    /\ bibResult' = bibScheme'
    /\ bibPc' = "done" /\ bibOutcome' = "returned"
    /\ UNCHANGED bibArg
    /\ UNCHANGED <<envVars, convVars, scanVars, doiVars>>

InitBib ==
    /\ registry \in Registries
    /\ modules \in ModuleTables(registry, {FullAttrs, {"extract_from_text"}})
    /\ bibArg \in SchemeNames \X {DoiA, DoiB}
    /\ bibPc = "call" /\ bibOutcome = "running"
    /\ bibScheme = NoneResult /\ bibResult = NoneResult
    /\ src = <<>> /\ installed = {}
    /\ ConvIdle /\ ScanIdle /\ DoiIdle

NextBib == GetBibtexDispatch \/ DoiGetBibtex \/ OtherGetBibtex

SpecBib == InitBib /\ [][NextBib]_vars

----------------------------------------------------------------------------
(* Vocabulary of the properties *)

\* s ends with suffix
HasSuffix(s, suffix) == \E k \in 0..Len(s) : SubSeq(s, k + 1, Len(s)) = suffix

\* the path has one of the two supported suffixes
Supported == HasSuffix(src, PdfSuffix) \/ HasSuffix(src, DjvuSuffix)

\* the k-th registered scheme is loaded, can extract, and finds something in
\* text
Matches(k, text) ==
    /\ registry[k] \in DOMAIN modules
    /\ "extract_from_text" \in modules[registry[k]]
    /\ extract_from_text(registry[k], text) # <<>>

\* the whole of what the converter has written holds an identifier of a
\* registered scheme
OutputHasIdentifier ==
    \E k \in 1..Len(registry) : Matches(k, JoinStripped(out))

\* the scan has returned a pair other than (None, None)
Found == pc = "done" /\ outcome = "returned" /\ result # NoneResult

\* the scan has returned (None, None)
NotFound == pc = "done" /\ outcome = "returned" /\ result = NoneResult

\* the buffer of the current iteration is in use
Scanning == pc \in {"scan", "terminate", "return"}

\* t is "10." and dot-separated runs of digits, the first of four or more
InPrefixGrammar(t) ==
    /\ Len(t) >= 7
    /\ t[1] = "1" /\ t[2] = "0" /\ t[3] = "."
    /\ \A k \in 4..Len(t) : t[k] \in Digits \cup {"."}
    /\ \A k \in 4..7 : t[k] \in Digits
    /\ t[Len(t)] # "."
    /\ \A k \in 4..(Len(t) - 1) : ~(t[k] = "." /\ t[k + 1] = ".")

\* the DOI grammar matches the whole of s
InGrammar(s) ==
    \E k \in 1..Len(s) :
        /\ s[k] = "/"
        /\ InPrefixGrammar(SubSeq(s, 1, k - 1))
        /\ k < Len(s)
        /\ \A j \in (k + 1)..Len(s) : s[j] # " " /\ s[j] \notin {"\"", "&", "'"}
        /\ IsWord(s[Len(s)])

\* the lookup of get_bibtex fails: scheme unregistered, module not loaded,
\* or module without get_bibtex
LookupFails ==
    \/ bibArg[1] \notin Range(registry)
    \/ bibArg[1] \notin DOMAIN modules
    \/ "get_bibtex" \notin modules[bibArg[1]]

----------------------------------------------------------------------------
(* Properties *)

\* C1: a scan of a supported source whose converter was launched and whose
\* output holds an identifier of a registered scheme ends by returning a
\* found pair, whatever the interleaving of converter and scanner.
C1_StreamingCorrectness ==
    (pc = "done" /\ conv # "none" /\ OutputHasIdentifier)
        => (outcome = "returned" /\ result # NoneResult)

\* C2: once the converter has written a line holding an identifier, the
\* scanner's read step can be taken at once: it does not wait for the end
\* of the converter's output.
C2_EarlyTermination ==
    (pc = "read" /\ OutputHasIdentifier) => ENABLED ReadLines

\* C3: find_identifiers never ends in an error that reaches its caller.
C3_NeverRaises == outcome # "raised"

\* C4: no standard-error data is ever held unread for the scan, and the
\* converter is never blocked writing standard error while the scanner is
\* blocked reading standard output.
C4_StderrDiscarded ==
    /\ errbuf = 0
    /\ ~(conv = "blocked" /\ pc = "read" /\ ~ENABLED ReadLines)

C6_ResultSelection ==
    Found =>
        \E k \in 1..Len(registry) :
            /\ result[1] = registry[k]
            /\ Matches(k, extract_full)
            /\ \A j \in 1..(k - 1) : ~Matches(j, extract_full)
            /\ result[2] = extract_from_text(registry[k], extract_full)[1]
            /\ Range(consulted) \subseteq {registry[j] : j \in 1..k}

\* found with two schemes matching the buffer and two identifiers extracted
C6_Witness ==
    /\ Found
    /\ Len(registry) = 2
    /\ Matches(1, extract_full) /\ Matches(2, extract_full)
    /\ Len(found_id) > 1

\* C7: a scan that returns a found pair has sent the terminate signal
\* exactly once, before its return, and its return waits for nothing; a scan
\* that returns (None, None) has sent none.
C7_TerminationSignalling ==
    /\ termSignals <= 1
    /\ pc = "return" => (termSignals = 1 /\ ENABLED Return)
    /\ Found => termSignals = 1
    /\ NotFound => termSignals = 0

\* a found pair returned while the converter is still alive
C7_Witness ==
    Found /\ termSignals = 1 /\ conv \in {"running", "blocked"}

\* C8: get_bibtex never ends in an error: a failed lookup gives None, a
\* successful one what the scheme's get_bibtex returned.
C8_DispatchNeverRaises ==
    /\ bibOutcome # "raised"
    /\ bibPc = "done" =>
          bibResult = IF LookupFails THEN NoneResult ELSE bibScheme

\* C9: is_valid accepts exactly the strings the grammar matches whole, and
\* rejects an accepted string extended by any one character, leading or
\* trailing.
C9_Anchoring ==
    verdict # "unset" =>
        /\ (verdict = "True") <=> InGrammar(cand)
        /\ ext \in {"lead", "trail"} => verdict = "False"

\* C9, amended: is_valid accepts exactly the strings the grammar matches
\* whole; it rejects an accepted string with one extra leading character,
\* and accepts one with an extra trailing character exactly when that
\* character is a letter, a digit or an underscore.
C9_AnchoringAmended ==
    verdict # "unset" =>
        /\ (verdict = "True") <=> InGrammar(cand)
        /\ ext = "lead" => verdict = "False"
        /\ ext = "trail" =>
              ((verdict = "False") <=> extc \in {".", "/", "-", "\"", "&", " ", "'"})

\* an accepted string extended by a trailing "-" has been rejected
C9_Witness ==
    ext = "trail" /\ extc = "-" /\ verdict = "False" /\ InGrammar(base)

\* C10: the buffer of every iteration is the join of all the lines read
\* since the start of the scan.
C10_AccumulatedBuffer ==
    Scanning => extract_full = JoinStripped(SubSeq(out, 1, readPos))

\* C10, amended: the buffer of an iteration is the join of the lines read in
\* that iteration alone: the whole of the converter's output in the first
\* iteration, whose read returns at the end of the output, and nothing in
\* any later one.
C10_PerIterationBuffer ==
    Scanning =>
        /\ readPos = Len(out)
        /\ iter = 1 => extract_full = JoinStripped(out)
        /\ iter > 1 => extract_full = <<>>

\* a later iteration scans an empty buffer though lines were read before
C10_Witness ==
    pc = "scan" /\ iter > 1 /\ readPos > 0 /\ extract_full = <<>>

====
